---- MODULE Spec2Model ----
(***************************************************************************)
(* wordserve corpus filter: scripts/filter.py and scripts/filter_corpus.py *)
(*                                                                         *)
(* A text is a sequence of characters, a character is a one-letter string  *)
(* or, for the characters that cannot be written in ASCII, a name:         *)
(*   "TAB" U+0009, "LF" U+000A, "NBSP" U+00A0         (whitespace)          *)
(*   "KELVIN" U+212A KELVIN SIGN, "IDOT" U+0130 capital I with dot above,   *)
(*   "COMBDOT" U+0307 combining dot above, "EACUTE" U+00E9,                 *)
(*   "CAPEACUTE" U+00C9, "ARDIGIT" U+0661 ARABIC-INDIC DIGIT ONE            *)
(***************************************************************************)
EXTENDS Integers, Sequences, FiniteSets, TLC

VARIABLES
    script,      \* which of the two scripts runs: "filter" or "filter_corpus"
    raw,         \* clean_text: the text argument as passed by the caller
    stop_words,  \* clean_text: the stop_words argument
    pc,          \* clean_text: position in the function body
    text,        \* clean_text: the local variable text
    origin,      \* history: for each character of text, its index in raw (0: inserted)
    toks,        \* clean_text: the list text.split() iterates over
    tokOrigin,   \* history: for each element of toks, the raw indices of its characters
    idx,         \* clean_text: position of the for loop in toks
    clean_word,  \* clean_text: the local clean_word of the last iteration
    words,       \* clean_text: the list words
    result,      \* clean_text: the returned string
    pass,        \* 1: first call; 2: the call on the first call's result
    first,       \* the first call's result (pass 2)
    gword,       \* is_gibberish: the argument
    gret,        \* is_gibberish: the returned value ("none" before the call returns)
    fs,          \* main: the file system: the directories and the files os.walk finds
    input_files, \* main: the list input_files, as indices into fs.walk
    mpc,         \* main: position in main
    next_task,   \* pool: index of the next task of imap to hand to a worker
    worker,      \* pool: per worker, the task it runs (0: idle)
    done_res,    \* pool: per task, whether it has finished and with which value
    results,     \* main: the list results
    success_count, \* main: success_count (-1: not yet computed)
    failed_count,  \* main: failed_count (-1: not yet computed)
    invoked,     \* history: per task, how often process_file was entered
    exit_code    \* main: the status passed to sys.exit (-1: still running)

cvars == <<raw, stop_words, pc, text, origin, toks, tokOrigin, idx, clean_word,
           words, result, pass, first>>
gvars == <<gword, gret>>
mvars == <<fs, input_files, mpc, next_task, worker, done_res, results,
           success_count, failed_count, invoked, exit_code>>
vars == <<script, cvars, gvars, mvars>>

----------------------------------------------------------------------------
(* Characters *)

LOWER == <<"a","b","c","d","e","f","g","h","i","j","k","l","m","n","o","p","q","r","s","t","u","v","w","x","y","z">>
UPPER == <<"A","B","C","D","E","F","G","H","I","J","K","L","M","N","O","P","Q","R","S","T","U","V","W","X","Y","Z">>

Range(s) == {s[k] : k \in DOMAIN s}

\* the class [a-z] of re.sub(r"[^a-z]", "", clean_word)
IsAZ(c) == c \in Range(LOWER)

\* what str.split() and str.strip() treat as whitespace
IsSpace(c) == c \in {" ", "TAB", "LF", "NBSP"}

\* the class \d of a str pattern: the Unicode decimal digits
IsDigit(c) == c \in {"0","1","2","3","4","5","6","7","8","9","ARDIGIT"}

\* str.lower() on one character; the result may be more than one character
LowerOf(c) ==
    IF c \in Range(UPPER)
    THEN <<LOWER[CHOOSE k \in DOMAIN UPPER : UPPER[k] = c]>>
    ELSE IF c = "KELVIN" THEN <<"k">>
    ELSE IF c = "IDOT" THEN <<"i", "COMBDOT">>
    ELSE IF c = "CAPEACUTE" THEN <<"EACUTE">>
    ELSE <<c>>

\* str.lower(): the characters' lowercase forms, concatenated in order
RECURSIVE str_lower(_)
str_lower(s) ==
    IF s = <<>> THEN <<>>
    ELSE IF Len(s) = 1 THEN LowerOf(s[1])
    ELSE str_lower(SubSeq(s, 1, Len(s) \div 2))
            \o str_lower(SubSeq(s, Len(s) \div 2 + 1, Len(s)))

IsBlank(s) == \A k \in DOMAIN s : IsSpace(s[k])

----------------------------------------------------------------------------
(* is_gibberish *)

MAX_LEN_FILTER == 32
MAX_LEN_CORPUS == 25

kbd_patt ==
    << <<"q","w","e","r","t">>, <<"a","s","d","f","g">>, <<"z","x","c","v","b">>,
       <<"y","u","i","o","p">>, <<"h","j","k","l">>, <<"b","n","m">>,
       <<"p","o","i","u","y">>, <<"l","k","j","h","g">>, <<"f","d","s","a">>,
       <<"m","n","b","v","c">>, <<"q","a","z","w","s","x">>,
       <<"e","d","c","r","f","v">>, <<"t","g","b","n","h","y">>,
       <<"u","j","m","k","i">>, <<"p","l","m">>, <<"q","a","z">>, <<"w","s","x">>,
       <<"e","d","c">>, <<"r","f","v">>, <<"t","g","b">>, <<"y","h","n">>,
       <<"u","j","m">>, <<"i","k","m">>, <<" ","p","l","m">> >>

keyboard_patterns ==
    << <<"q","w","e","r","t">>, <<"a","s","d","f","g">>, <<"z","x","c","v","b">>,
       <<"y","u","i","o","p">>, <<"h","j","k","l">>, <<"b","n","m">>,
       <<"p","o","i","u","y">>, <<"l","k","j","h","g">>, <<"f","d","s","a">>,
       <<"m","n","b","v","c">> >>

\* pattern in word
Contains(word, pattern) ==
    \E k \in 0..(Len(word) - Len(pattern)) :
        \A m \in 1..Len(pattern) : word[k + m] = pattern[m]

\* re.search(r"(.)\1{3,}", word); "." matches anything but a line feed
HasRepeat(word) ==
    \E k \in 1..(Len(word) - 3) :
        /\ word[k] # "LF"
        /\ word[k + 1] = word[k] /\ word[k + 2] = word[k] /\ word[k + 3] = word[k]

\* re.search(r"[aeiou]", word)
HasVowel(word) == \E k \in DOMAIN word : word[k] \in {"a","e","i","o","u"}

\* the for loop over the pattern table: True at the first pattern found in word
PatternLoop(word, table) == \E k \in DOMAIN table : Contains(word, table[k])

\* a variant whose vowel rule starts one letter early
is_gibberish_vowel5(word) ==
    IF Len(word) < 2 THEN TRUE
    ELSE IF Len(word) > MAX_LEN_FILTER THEN TRUE
    ELSE IF HasRepeat(word) THEN TRUE
    ELSE IF Len(word) >= 5 /\ ~HasVowel(word) THEN TRUE
    ELSE PatternLoop(word, kbd_patt)

is_gibberish_filter(word) ==
    IF Len(word) < 2 THEN TRUE
    ELSE IF Len(word) > MAX_LEN_FILTER THEN TRUE
    ELSE IF HasRepeat(word) THEN TRUE
    ELSE IF Len(word) > 5 /\ ~HasVowel(word) THEN TRUE
    ELSE PatternLoop(word, kbd_patt)

is_gibberish_corpus(word) ==
    IF Len(word) < 2 THEN TRUE
    ELSE IF Len(word) > MAX_LEN_CORPUS THEN TRUE
    ELSE IF HasRepeat(word) THEN TRUE
    ELSE IF Len(word) > 5 /\ ~HasVowel(word) THEN TRUE
    ELSE PatternLoop(word, keyboard_patterns)

is_gibberish(sc, word) ==
    IF sc = "filter" THEN is_gibberish_filter(word) ELSE is_gibberish_corpus(word)

----------------------------------------------------------------------------
(* clean_text: the regular expressions and the string operations *)

MinOf(S) == CHOOSE x \in S : \A y \in S : x <= y

\* r"@@\d+" tried at position k: the index of the match's last character, 0 if none
MarkerEnd(t, k) ==
    IF /\ k + 2 <= Len(t)
       /\ t[k] = "@" /\ t[k + 1] = "@" /\ IsDigit(t[k + 2])
    THEN CHOOSE e \in (k + 2)..Len(t) :
            /\ \A m \in (k + 2)..e : IsDigit(t[m])
            /\ e = Len(t) \/ ~IsDigit(t[e + 1])
    ELSE 0

\* a variant for r"<[a-z]+>": only letters between the delimiters
TagEndLettersOnly(t, k) ==
    IF t[k] # "<" THEN 0
    ELSE LET closers == {m \in (k + 1)..Len(t) : t[m] = ">"}
         IN  IF closers = {} THEN 0
             ELSE IF /\ MinOf(closers) > k + 1
                     /\ \A m \in (k + 1)..(MinOf(closers) - 1) : IsAZ(t[m])
                  THEN MinOf(closers) ELSE 0

\* r"<[^>]+>" tried at position k: the index of the match's last character, 0 if none
TagEnd(t, k) ==
    IF t[k] # "<" THEN 0
    ELSE LET closers == {m \in (k + 1)..Len(t) : t[m] = ">"}
         IN  IF closers = {} THEN 0
             ELSE IF MinOf(closers) > k + 1 THEN MinOf(closers) ELSE 0

\* the non-overlapping matches re.sub finds, left to right: the leftmost match
\* starting at position k or later, then the matches after its end
RECURSIVE MarkerSpans(_,_)
MarkerSpans(t, k) ==
    LET starts == {m \in k..Len(t) : MarkerEnd(t, m) > 0}
    IN  IF starts = {} THEN <<>>
        ELSE << <<MinOf(starts), MarkerEnd(t, MinOf(starts))>> >>
                \o MarkerSpans(t, MarkerEnd(t, MinOf(starts)) + 1)

RECURSIVE TagSpans(_,_)
TagSpans(t, k) ==
    LET starts == {m \in k..Len(t) : TagEnd(t, m) > 0}
    IN  IF starts = {} THEN <<>>
        ELSE << <<MinOf(starts), TagEnd(t, MinOf(starts))>> >>
                \o TagSpans(t, TagEnd(t, MinOf(starts)) + 1)

\* re.sub: s with every span replaced by the one element repl
Replace(s, spans, repl) ==
    LET Inside(k) == \E n \in DOMAIN spans : spans[n][1] < k /\ k <= spans[n][2]
        Starts(k) == \E n \in DOMAIN spans : spans[n][1] = k
        Kept(k) == ~Inside(k)
        at == SelectSeq([k \in DOMAIN s |-> k], Kept)
    IN  [n \in DOMAIN at |-> IF Starts(at[n]) THEN repl ELSE s[at[n]]]

\* text.split(): the maximal runs of non-whitespace, from position k on
RECURSIVE SplitSpans(_,_)
SplitSpans(t, k) ==
    LET starts == {m \in k..Len(t) : ~IsSpace(t[m])}
        ends == {e \in MinOf(starts)..Len(t) : e = Len(t) \/ IsSpace(t[e + 1])}
    IN  IF starts = {} THEN <<>>
        ELSE << <<MinOf(starts), MinOf(ends)>> >> \o SplitSpans(t, MinOf(ends) + 1)

Pieces(s, spans) == [n \in DOMAIN spans |-> SubSeq(s, spans[n][1], spans[n][2])]

str_split(t) == Pieces(t, SplitSpans(t, 1))

\* a variant that lowercases and forgets to delete the other characters
NormalizeLowerOnly(word) == str_lower(word)

\* clean_word = word.lower(); clean_word = re.sub(r"[^a-z]", "", clean_word)
Normalize(word) == SelectSeq(str_lower(word), IsAZ)

\* a variant that joins with the empty string
RECURSIVE JoinNoSeparator(_)
JoinNoSeparator(ws) == IF ws = <<>> THEN <<>> ELSE ws[1] \o JoinNoSeparator(Tail(ws))

\* " ".join(words)
RECURSIVE str_join(_)
str_join(ws) ==
    IF ws = <<>> THEN <<>>
    ELSE IF Len(ws) = 1 THEN ws[1]
    ELSE ws[1] \o <<" ">> \o str_join(Tail(ws))

\* a variant that forgets the stop-word test
KeepsNoStopTest(sc, sw, cw) == cw # <<>> /\ ~is_gibberish(sc, cw)

\* the test of the if statement in the loop
Keeps(sc, sw, cw) == cw # <<>> /\ cw \notin sw /\ ~is_gibberish(sc, cw)

----------------------------------------------------------------------------
(* Inputs *)

MaxRichLen == 2
MaxTagLen == 5

Seqs(A, n) == UNION {[1..k -> A] : k \in 0..n}

Rep(c, n) == [k \in 1..n |-> c]

RichAlphabet == {"a", "b", "A", " ", "LF", "<", ">", "@", "1", ",", "KELVIN", "IDOT"}
TagAlphabet == {"<", ">", "a", " "}

EX_CAT == <<"t","h","e"," ","c","a","t"," ","a","n","d"," ","t","h","e"," ","h","a","t">>
EX_CAPS == <<"T","h","e",","," ","C","A","T"," ","(","a","n","d",")"," ","h","a","t">>
EX_MARKUP == <<"s","e","e"," ","<","a"," ","h","r","e","f","=","'","x","'",">","h","e","r","e","<","/","a",">"," ","a","n","d"," ","@","@","1","2"," ","m","o","r","e">>
EX_HELLO == <<"H","e","l","l","o",","," ","W","o","r","l","d","!"," ","1","2","3">>
EX_BLANK == <<" "," "," ","LF","TAB">>
EX_NESTED == <<"<","@","@","1",">","a","b"," ","c","d">>
EX_EMPTYTAG == <<"a","b","<",">","c","d">>
EX_KELVIN == <<"KELVIN","e","l","v","i","n"," ","CAPEACUTE","c","o","l","e"," ","IDOT","x">>
EX_NOISE == <<"q","w","e","r","t","y"," ","r","h","y","t","h","m"," ","o","k"," ","a","a","a","a"," ","n","t","h">>
EX_SPLITTAG == <<"a","b","<","LF",">","c","d","NBSP","e","f">>
EX_ARDIGIT == <<"a","b","@","@","ARDIGIT","c","d"," ","a","b","@","@","c","d">>
\* a word of 32 letters, one of 33 and one of 26
EX_LONG == Rep("e", 1) \o Rep("l", 1) \o Rep("a", 1) \o Rep("n", 1)
EX_LONG32 == EX_LONG \o EX_LONG \o EX_LONG \o EX_LONG \o EX_LONG \o EX_LONG \o EX_LONG \o EX_LONG
EX_LENGTHS == EX_LONG32 \o <<" ">> \o EX_LONG32 \o <<"e">> \o <<" ">> \o SubSeq(EX_LONG32, 1, 26)

Examples == {EX_CAT, EX_CAPS, EX_MARKUP, EX_HELLO, EX_BLANK, EX_NESTED, EX_EMPTYTAG,
             EX_KELVIN, EX_NOISE, EX_SPLITTAG, EX_ARDIGIT, EX_LENGTHS}

Texts == Seqs(RichAlphabet, MaxRichLen) \cup Seqs(TagAlphabet, MaxTagLen) \cup Examples

SW_NONE == {}
SW_THE_AND == {<<"t","h","e">>, <<"a","n","d">>}
SW_SHORT == {<<"a","a">>, <<"a","b">>, <<"k","a">>, <<"c","d">>}
StopSets == {SW_NONE, SW_THE_AND, SW_SHORT}

Scripts == {"filter", "filter_corpus"}

----------------------------------------------------------------------------
(* clean_text, one action per statement *)

Identity(s) == [k \in DOMAIN s |-> k]

GibIdle == gword = <<>> /\ gret = "none"
MainIdle ==
    /\ fs = <<>> /\ input_files = <<>> /\ mpc = "idle" /\ next_task = 0
    /\ worker = <<>> /\ done_res = <<>> /\ results = <<>>
    /\ success_count = -1 /\ failed_count = -1
    /\ invoked = <<>> /\ exit_code = -1

Init ==
    /\ script \in Scripts
    /\ raw \in Texts
    /\ stop_words \in StopSets
    /\ pc = "entry"
    /\ text = raw
    /\ origin = Identity(raw)
    /\ toks = <<>> /\ tokOrigin = <<>> /\ idx = 0
    /\ clean_word = <<>> /\ words = <<>> /\ result = <<>>
    /\ pass = 1 /\ first = <<>>
    /\ GibIdle /\ MainIdle

\* a variant of the early return that hands the text back
EarlyReturnText ==
    /\ pc = "entry" /\ script = "filter"
    /\ IsBlank(text)
    /\ result' = text
    /\ pc' = "done"
    /\ UNCHANGED <<script, raw, stop_words, text, origin, toks, tokOrigin, idx,
                   clean_word, words, pass, first, gvars, mvars>>

\* filter.py: if not text or not text.strip(): return ""
EarlyReturn ==
    /\ pc = "entry" /\ script = "filter"
    /\ IsBlank(text)
    /\ result' = <<>>
    /\ pc' = "done"
    /\ UNCHANGED <<script, raw, stop_words, text, origin, toks, tokOrigin, idx,
                   clean_word, words, pass, first, gvars, mvars>>

\* text = re.sub(r"@@\d+", " ", text)
SubMarkers ==
    /\ pc = "entry"
    /\ script = "filter" => ~IsBlank(text)
    /\ text' = Replace(text, MarkerSpans(text, 1), " ")
    /\ origin' = Replace(origin, MarkerSpans(text, 1), 0)
    /\ pc' = "tags"
    /\ UNCHANGED <<script, raw, stop_words, toks, tokOrigin, idx, clean_word,
                   words, result, pass, first, gvars, mvars>>

\* text = re.sub(r"<[^>]+>", " ", text)
SubTags ==
    /\ pc = "tags"
    /\ text' = Replace(text, TagSpans(text, 1), " ")
    /\ origin' = Replace(origin, TagSpans(text, 1), 0)
    /\ pc' = "split"
    /\ UNCHANGED <<script, raw, stop_words, toks, tokOrigin, idx, clean_word,
                   words, result, pass, first, gvars, mvars>>

\* words = []; for word in text.split():
Split ==
    /\ pc = "split"
    /\ toks' = str_split(text)
    /\ tokOrigin' = Pieces(origin, SplitSpans(text, 1))
    /\ words' = <<>>
    /\ idx' = 1
    /\ pc' = "loop"
    /\ UNCHANGED <<script, raw, stop_words, text, origin, clean_word, result,
                   pass, first, gvars, mvars>>

\* a variant that puts the new word first
LoopPrepend(ws, cw) == <<cw>> \o ws

\* the words the loop body leaves in the list
LoopAppend(ws, cw) == Append(ws, cw)

\* one iteration of the loop body
LoopStep ==
    /\ pc = "loop" /\ idx <= Len(toks)
    /\ clean_word' = Normalize(toks[idx])
    /\ words' = IF Keeps(script, stop_words, clean_word')
                THEN LoopAppend(words, clean_word')
                ELSE words
    /\ idx' = idx + 1
    /\ UNCHANGED <<script, raw, stop_words, pc, text, origin, toks, tokOrigin,
                   result, pass, first, gvars, mvars>>

\* return " ".join(words)
Join ==
    /\ pc = "loop" /\ idx > Len(toks)
    /\ result' = str_join(words)
    /\ pc' = "done"
    /\ UNCHANGED <<script, raw, stop_words, text, origin, toks, tokOrigin, idx,
                   clean_word, words, pass, first, gvars, mvars>>

\* the caller passes the returned string to clean_text again, same stop_words
Again ==
    /\ pc = "done" /\ pass = 1
    /\ first' = result
    /\ raw' = result /\ text' = result /\ origin' = Identity(result)
    /\ toks' = <<>> /\ tokOrigin' = <<>> /\ idx' = 0
    /\ clean_word' = <<>> /\ words' = <<>> /\ result' = <<>>
    /\ pass' = 2
    /\ pc' = "entry"
    /\ UNCHANGED <<script, stop_words, gvars, mvars>>

Next == EarlyReturn \/ SubMarkers \/ SubTags \/ Split \/ LoopStep \/ Join \/ Again

Spec == Init /\ [][Next]_vars

----------------------------------------------------------------------------
(* Properties of clean_text *)

Returned == pc = "done"

\* the tokens of a cleaned text: its maximal runs of characters other than " "
SpaceTokens(s) ==
    {SubSeq(s, a, b) : <<a, b>> \in
        {ab \in (1..Len(s)) \X (1..Len(s)) :
            /\ ab[1] <= ab[2]
            /\ \A m \in ab[1]..ab[2] : s[m] # " "
            /\ ab[1] = 1 \/ s[ab[1] - 1] = " "
            /\ ab[2] = Len(s) \/ s[ab[2] + 1] = " "}}

\* the text with both kinds of markup replaced by a space
Stripped(t) ==
    LET u == Replace(t, MarkerSpans(t, 1), " ")
    IN  Replace(u, TagSpans(u, 1), " ")

\* the normalized tokens of a raw text, in input order
NormalizedTokens(t) ==
    LET ts == str_split(Stripped(t)) IN [n \in DOMAIN ts |-> Normalize(ts[n])]

\* the normalized tokens that pass the three tests, in input order
Survivors(sc, sw, t) ==
    LET Passes(cw) == cw # <<>> /\ cw \notin sw /\ ~is_gibberish(sc, cw)
    IN  SelectSeq(NormalizedTokens(t), Passes)

CAT_HAT == <<"c","a","t"," ","h","a","t">>

\* C1: when clean_text of filter.py returns, the returned string is the
\* single-space join, in input order, of exactly the normalized tokens of the
\* stripped text that are non-empty, not stop words and not gibberish.
C1_ExactJoin ==
    (Returned /\ script = "filter") =>
        result = str_join(Survivors("filter", stop_words, raw))

C1_Witness ==
    /\ Returned /\ script = "filter" /\ pass = 1
    /\ raw = EX_CAPS /\ stop_words = SW_THE_AND
    /\ Len(toks) = 4 /\ Len(words) = 2
    /\ result = CAT_HAT

\* C2: no token of the returned string is a stop word; the test is made on the
\* normalized token, so "The," is dropped when "the" is a stop word, and
\* "the cat and the hat" with {"the","and"} gives "cat hat".
C2_NoStopWord ==
    Returned =>
        /\ \A w \in SpaceTokens(result) : w \notin stop_words
        /\ (raw = EX_CAT /\ stop_words = SW_THE_AND) => result = CAT_HAT
        /\ (raw = EX_CAPS /\ stop_words = SW_THE_AND) => result = CAT_HAT

C2_Witness ==
    /\ Returned /\ pass = 1
    /\ raw = EX_CAT /\ stop_words = SW_THE_AND
    /\ result = CAT_HAT

\* C3: cleaning the returned string again, with the same stop words, returns it
\* unchanged.
C3_Idempotent == (Returned /\ pass = 2) => result = first

C3_Witness ==
    /\ Returned /\ pass = 2
    /\ first = CAT_HAT /\ result = CAT_HAT
    /\ Len(toks) = 2

\* a "<" at i and the next ">" at j of the raw text
TagPair(t, i, j) ==
    /\ i < j /\ t[i] = "<" /\ t[j] = ">"
    /\ \A m \in (i + 1)..(j - 1) : t[m] # ">"

\* no token holds a character of raw[i..j], and none holds characters of both sides
Separated(i, j) ==
    \A n \in DOMAIN tokOrigin :
        /\ \A m \in DOMAIN tokOrigin[n] : tokOrigin[n][m] \notin i..j
        /\ ~(\E a, b \in DOMAIN tokOrigin[n] :
                tokOrigin[n][a] < i /\ tokOrigin[n][b] > j)

Tokenized == pc \in {"loop", "done"} /\ ~(pc = "done" /\ toks = <<>>)

C6_WellFormed ==
    (Returned /\ script = "filter") =>
        \/ result = <<>>
        \/ /\ result[1] # " " /\ result[Len(result)] # " "
           /\ \A m \in 1..(Len(result) - 1) : ~(result[m] = " " /\ result[m + 1] = " ")
           /\ \A m \in DOMAIN result : result[m] = " " \/ result[m] \in Range(LOWER)
           /\ \A w \in SpaceTokens(result) : Len(w) >= 2 /\ Len(w) <= 32

C6_Witness ==
    /\ Returned /\ script = "filter" /\ pass = 1
    /\ raw = EX_LENGTHS
    /\ Len(words) = 2 /\ Len(words[1]) = 32 /\ Len(result) = 59

\* C7: for an empty or all-whitespace text clean_text returns the empty string,
\* in filter.py (early return) and in filter_corpus.py (full pipeline), and
\* that is what the statements after the early return compute for it.
C7_BlankGivesEmpty ==
    (Returned /\ \A m \in DOMAIN raw : raw[m] \in {" ", "TAB", "LF", "NBSP"}) =>
        /\ result = <<>>
        /\ result = str_join(Survivors("filter", stop_words, raw))

C7_Witness ==
    /\ Returned /\ pass = 1 /\ script = "filter_corpus"
    /\ raw = EX_BLANK /\ result = <<>>

\* the ASCII letters of a token, lowercased
AsciiLower(c) ==
    IF c \in Range(UPPER) THEN LOWER[CHOOSE k \in DOMAIN UPPER : UPPER[k] = c] ELSE c
AsciiLetters(word) ==
    LET IsLetter(c) == c \in Range(UPPER) \cup Range(LOWER)
        ls == SelectSeq(word, IsLetter)
    IN  [m \in DOMAIN ls |-> AsciiLower(ls[m])]

\* C8: the normalized token is the subsequence of the token's ASCII letters,
\* lowercased; no other character contributes a letter.
C8_OnlyAsciiLetters ==
    (pc = "loop" /\ idx > 1) => clean_word = AsciiLetters(toks[idx - 1])

----------------------------------------------------------------------------
(* is_gibberish called on normalized tokens *)

MaxWordLen == 6

GibAlphabet == {"a", "q", "z"}

W_QWERTY == <<"q","w","e","r","t","y">>
W_AAAA == <<"a","a","a","a">>
W_XYZ == <<"x","y">> \o Rep("z", 9)
W_A == <<"a">>
W_OK == <<"o","k">>
W_RHYTHM == <<"r","h","y","t","h","m">>
W_NTH == <<"n","t","h">>
W_CRWTH == <<"c","r","w","t","h">>
W_PLUMB == <<"p","l","m","s">>
W_LONG32 == EX_LONG32
W_LONG33 == EX_LONG32 \o <<"e">>
W_LONG26 == SubSeq(EX_LONG32, 1, 26)

GibExamples == {W_QWERTY, W_AAAA, W_XYZ, W_A, W_OK, W_RHYTHM, W_NTH, W_CRWTH,
                W_PLUMB, W_LONG32, W_LONG33, W_LONG26}

GibWords == Seqs(GibAlphabet, MaxWordLen) \cup GibExamples

CleanIdle ==
    /\ raw = <<>> /\ stop_words = {} /\ pc = "idle" /\ text = <<>> /\ origin = <<>>
    /\ toks = <<>> /\ tokOrigin = <<>> /\ idx = 0 /\ clean_word = <<>>
    /\ words = <<>> /\ result = <<>> /\ pass = 1 /\ first = <<>>

GibInit ==
    /\ script \in Scripts
    /\ gword \in GibWords
    /\ gret = "none"
    /\ CleanIdle /\ MainIdle

\* the call is_gibberish(word) and its return value
GibCall ==
    /\ gret = "none"
    /\ gret' = IF is_gibberish(script, gword) THEN "True" ELSE "False"
    /\ UNCHANGED <<script, gword, cvars, mvars>>

GibNext == GibCall

SpecGib == GibInit /\ [][GibNext]_vars

\* the five rules of the classifier, each on its own
RuleShort(w) == Len(w) < 2
RuleLong(w) == Len(w) > 32
RuleRun(w) == \E k \in DOMAIN w : \A m \in 0..3 : k + m \in DOMAIN w /\ w[k + m] = w[k]
RuleNoVowel(w) == Len(w) > 5 /\ \A k \in DOMAIN w : w[k] \notin {"a", "e", "i", "o", "u"}
RuleKeyboard(w) ==
    \E n \in DOMAIN kbd_patt : \E a, b \in DOMAIN w :
        b - a + 1 = Len(kbd_patt[n]) /\ SubSeq(w, a, b) = kbd_patt[n]

----------------------------------------------------------------------------
(* filter.py: process_file, main and the worker pool *)

MaxFiles == 2
MaxWorkers == 2

\* what process_file meets for one file
F_OK == [txt |-> TRUE, mkdir_ok |-> TRUE, exists |-> TRUE, readable |-> TRUE,
         size |-> "normal", read_raises |-> "none", content |-> "text",
         out_writable |-> TRUE, write_raises |-> "none"]
F_NOT_TXT == [F_OK EXCEPT !.txt = FALSE]
F_NO_OUTDIR == [F_OK EXCEPT !.mkdir_ok = FALSE]
F_MISSING == [F_OK EXCEPT !.exists = FALSE]
F_UNREADABLE == [F_OK EXCEPT !.readable = FALSE]
F_EMPTY == [F_OK EXCEPT !.size = "zero"]
F_HUGE == [F_OK EXCEPT !.size = "over100MB"]
F_DECODE == [F_OK EXCEPT !.read_raises = "UnicodeDecodeError"]
F_PERMISSION == [F_OK EXCEPT !.read_raises = "PermissionError"]
F_BLANK == [F_OK EXCEPT !.content = "blank"]
F_ALL_NOISE == [F_OK EXCEPT !.content = "noise"]
F_NOWRITE == [F_OK EXCEPT !.out_writable = FALSE]
F_WRITE_OSERROR == [F_OK EXCEPT !.write_raises = "OSError"]
F_WRITE_OTHER == [F_OK EXCEPT !.write_raises = "Exception"]

FileKinds == {F_OK, F_NOT_TXT, F_NO_OUTDIR, F_MISSING, F_UNREADABLE, F_EMPTY, F_HUGE,
              F_DECODE, F_PERMISSION, F_BLANK, F_ALL_NOISE, F_NOWRITE,
              F_WRITE_OSERROR, F_WRITE_OTHER}

\* the body of process_file's try block: a returned value or a raised exception
process_file_try(f) ==
    IF ~f.exists THEN "False"
    ELSE IF ~f.readable THEN "False"
    ELSE IF f.size = "zero" THEN "False"
    ELSE IF f.size = "over100MB" THEN "False"
    ELSE IF f.read_raises # "none" THEN f.read_raises
    ELSE IF f.content = "blank" THEN "False"
    ELSE IF ~f.out_writable THEN "False"
    ELSE IF f.write_raises # "none" THEN f.write_raises
    ELSE "True"

\* process_file: every except clause returns False
process_file(f) ==
    IF process_file_try(f) \in {"True", "False"} THEN process_file_try(f) = "True"
    ELSE IF process_file_try(f) = "UnicodeDecodeError" THEN FALSE
    ELSE IF process_file_try(f) = "PermissionError" THEN FALSE
    ELSE IF process_file_try(f) = "OSError" THEN FALSE
    ELSE FALSE

\* sum(results)
RECURSIVE SumTrue(_)
SumTrue(rs) == IF rs = <<>> THEN 0 ELSE (IF Head(rs) THEN 1 ELSE 0) + SumTrue(Tail(rs))

\* a variant that forgets the exit status of a partial failure
ExitStatusNoPartial(succ, failed) == IF succ = 0 THEN 1 ELSE 0

\* the status main exits with after the summary
ExitStatus(succ, failed) ==
    IF succ = 0 THEN 1 ELSE IF failed > 0 THEN 2 ELSE 0

Workers == 1..MaxWorkers

MainInit ==
    /\ script = "filter"
    /\ fs \in [dirs_ok : BOOLEAN, walk : Seqs(FileKinds, MaxFiles)]
    /\ input_files = <<>>
    /\ mpc = "start"
    /\ next_task = 0
    /\ worker = [w \in Workers |-> 0]
    /\ done_res = <<>> /\ results = <<>> /\ invoked = <<>>
    /\ success_count = -1 /\ failed_count = -1
    /\ exit_code = -1
    /\ CleanIdle /\ GibIdle

\* the checks of the input and the output directory; each failure is sys.exit(1)
CheckDirs ==
    /\ mpc = "start"
    /\ IF fs.dirs_ok
       THEN mpc' = "scan" /\ UNCHANGED exit_code
       ELSE mpc' = "exited" /\ exit_code' = 1
    /\ UNCHANGED <<script, cvars, gvars, fs, input_files, next_task, worker, done_res,
                   results, success_count, failed_count, invoked>>

\* the .txt files of the walk whose output directory could be made
Listed(walk) ==
    LET Ok(k) == walk[k].txt /\ walk[k].mkdir_ok
    IN  SelectSeq([k \in DOMAIN walk |-> k], Ok)

\* the walk over the input directory, then the two checks of the counts
Scan ==
    /\ mpc = "scan"
    /\ input_files' = Listed(fs.walk)
    /\ IF {k \in DOMAIN fs.walk : fs.walk[k].txt} = {} \/ input_files' = <<>>
       THEN /\ mpc' = "exited" /\ exit_code' = 1
            /\ UNCHANGED <<next_task, done_res, invoked>>
       ELSE /\ mpc' = "pool" /\ UNCHANGED exit_code
            /\ next_task' = 1
            /\ done_res' = [k \in DOMAIN input_files' |-> [done |-> FALSE, value |-> FALSE]]
            /\ invoked' = [k \in DOMAIN input_files' |-> 0]
    /\ UNCHANGED <<script, cvars, gvars, fs, worker, results, success_count,
                   failed_count>>

\* pool.imap: an idle worker takes the next task and enters process_file
Dispatch(w) ==
    /\ mpc = "pool" /\ worker[w] = 0
    /\ next_task <= Len(input_files)
    /\ worker' = [worker EXCEPT ![w] = next_task]
    /\ invoked' = [invoked EXCEPT ![next_task] = @ + 1]
    /\ next_task' = next_task + 1
    /\ UNCHANGED <<script, cvars, gvars, fs, input_files, mpc, done_res, results,
                   success_count, failed_count, exit_code>>

\* process_file returns in the worker and the value goes back to the pool
Finish(w) ==
    /\ mpc = "pool" /\ worker[w] # 0
    /\ done_res' = [done_res EXCEPT ![worker[w]] =
                        [done |-> TRUE,
                         value |-> process_file(fs.walk[input_files[worker[w]]])]]
    /\ worker' = [worker EXCEPT ![w] = 0]
    /\ UNCHANGED <<script, cvars, gvars, fs, input_files, mpc, next_task, results,
                   success_count, failed_count, invoked, exit_code>>

\* list(pool.imap(...)): the next value, in the order of input_files
Collect ==
    /\ mpc = "pool" /\ Len(results) < Len(input_files)
    /\ done_res[Len(results) + 1].done
    /\ results' = Append(results, done_res[Len(results) + 1].value)
    /\ UNCHANGED <<script, cvars, gvars, fs, input_files, mpc, next_task, worker,
                   done_res, success_count, failed_count, invoked, exit_code>>

\* pool.close(); pool.join()
PoolJoin ==
    /\ mpc = "pool" /\ Len(results) = Len(input_files)
    /\ mpc' = "summary"
    /\ UNCHANGED <<script, cvars, gvars, fs, input_files, next_task, worker, done_res,
                   results, success_count, failed_count, invoked, exit_code>>

\* except KeyboardInterrupt: pool.terminate(); pool.join(); sys.exit(1)
Interrupt ==
    /\ mpc = "pool"
    /\ worker' = [w \in Workers |-> 0]
    /\ mpc' = "exited" /\ exit_code' = 1
    /\ UNCHANGED <<script, cvars, gvars, fs, input_files, next_task, done_res,
                   results, success_count, failed_count, invoked>>

\* except Exception (the pool could not be created): sys.exit(1)
PoolFails ==
    /\ mpc = "pool" /\ next_task = 1
    /\ mpc' = "exited" /\ exit_code' = 1
    /\ UNCHANGED <<script, cvars, gvars, fs, input_files, next_task, worker, done_res,
                   results, success_count, failed_count, invoked>>

\* a variant of the counts that takes every result for a success
CountsAllSuccess ==
    /\ success_count' = Len(results)
    /\ failed_count' = Len(input_files) - success_count'

\* success_count = sum(results); failed_count = len(input_files) - success_count
Counts ==
    /\ success_count' = SumTrue(results)
    /\ failed_count' = Len(input_files) - success_count'

\* the summary and the exit status
Summary ==
    /\ mpc = "summary"
    /\ Counts
    /\ exit_code' = ExitStatus(success_count', failed_count')
    /\ mpc' = "exited"
    /\ UNCHANGED <<script, cvars, gvars, fs, input_files, next_task, worker, done_res,
                   results, invoked>>

MainNext ==
    \/ CheckDirs \/ Scan
    \/ \E w \in Workers : Dispatch(w)
    \/ \E w \in Workers : Finish(w)
    \/ Collect \/ PoolJoin \/ Interrupt \/ PoolFails \/ Summary

SpecMain == MainInit /\ [][MainNext]_vars

----------------------------------------------------------------------------
(* Properties of main *)

Summarised == mpc = "exited" /\ success_count >= 0

Succeeded == {k \in DOMAIN results : results[k]}
Failed == {k \in DOMAIN results : ~results[k]}

\* C9: after the results of all listed files are collected, main exits 0 if
\* and only if every file succeeded, 2 if some succeeded and some failed, and
\* 1 if none succeeded; so the status is nonzero whenever a file failed.
C9_ExitStatus ==
    Summarised =>
        /\ Len(results) = Len(input_files)
        /\ exit_code = 0 <=> Failed = {}
        /\ (Succeeded # {} /\ Failed # {}) => exit_code = 2
        /\ Succeeded = {} => exit_code = 1
        /\ Failed # {} => exit_code # 0

C9_Witness ==
    /\ Summarised
    /\ results = <<TRUE, FALSE>>
    /\ exit_code = 2

\* C10: process_file is entered at most once per listed file at any time, and
\* once the pool has finished exactly once per listed file; each file has one
\* result, the value of process_file for that file whatever happened to the
\* others; and the two counts add up to the number of listed files.
C10_OncePerFile ==
    /\ \A k \in DOMAIN invoked : invoked[k] <= 1
    /\ mpc = "summary" \/ Summarised =>
        /\ Len(results) = Len(input_files)
        /\ \A k \in DOMAIN input_files :
              /\ invoked[k] = 1
              /\ results[k] = process_file(fs.walk[input_files[k]])
    /\ Summarised =>
        /\ success_count = Cardinality(Succeeded)
        /\ failed_count = Cardinality(Failed)
        /\ success_count + failed_count = Len(input_files)

C10_Witness ==
    /\ Summarised
    /\ fs.walk = <<F_WRITE_OSERROR, F_OK>>
    /\ results = <<FALSE, TRUE>>
    /\ invoked = <<1, 1>>
    /\ success_count = 1 /\ failed_count = 1

====
